---- MODULE Spec2Model ----
(***************************************************************************)
(* Station monitoring dashboards: station_dashboard.py (program 1) and     *)
(* station_dashboard2.py (program 2).  One Streamlit session of either     *)
(* script is modelled: the source documents it reads, its session state,   *)
(* and one action per script run (load) or widget event (station button,   *)
(* back button, time-range selectbox).                                     *)
(*                                                                         *)
(* Text is a sequence of one-character strings, so that strip(), lower()   *)
(* and the substring test are computed and not assumed.                    *)
(***************************************************************************)
EXTENDS Integers, Sequences, FiniteSets, TLC

VARIABLES
    program,                \* which script the session runs: 1 or 2 (0: none)
    location_file,          \* the registry document (LOCATION_FILE)
    detail_file,            \* the detail document (DETAIL_FILE, program 1)
    data_file,              \* the time-series workbook (DATA_FILE)
    stations_data,          \* st.session_state.stations_data
    detail_data,            \* st.session_state.detail_data
    data_df,                \* st.session_state.data_df
    selected_station,       \* st.session_state.selected_station
    selected_station_name,  \* st.session_state.selected_station_name
    days,                   \* value of the "Time Range" selectbox
    phase,                  \* "start" | "running" | "stopped" (st.stop())
    messages,               \* what the load step of the last run reported
    view,                   \* what the last run rendered (list, main content)
    lastEvent,              \* the last event handled and how it ended
    call,                   \* function-level specifications: the inputs
    ret                     \* function-level specifications: the result

vars == <<program, location_file, detail_file, data_file, stations_data,
          detail_data, data_df, selected_station, selected_station_name,
          days, phase, messages, view, lastEvent, call, ret>>

-----------------------------------------------------------------------------
(* Bounds of the model.                                                      *)

MaxStations == 2    \* rows of a registry document
MaxSheets == 2      \* sheets of the workbook
MaxRows == 3        \* rows of a sheet in the filter specification
MaxDay == 4         \* latest calendar day in the filter specification
MaxDays == 3        \* widest window in the filter specification
MaxNameLen == 2     \* longest sheet name in the resolver specification
MaxIdLen == 2       \* longest station identifier in the resolver specification

-----------------------------------------------------------------------------
(* Text.                                                                     *)

Range(s) == {s[i] : i \in 1..Len(s)}

\* the elements of s at the positions of mask, in order
Pick(s, mask) ==
    LET F[i \in 0..Len(s)] ==
            IF i = 0 THEN <<>>
            ELSE IF i \in mask THEN Append(F[i - 1], s[i]) ELSE F[i - 1]
    IN  F[Len(s)]

\* str.lower(), one character
lower_char(c) ==
    CASE c = "A" -> "a" [] c = "B" -> "b" [] c = "C" -> "c" [] c = "D" -> "d"
      [] c = "E" -> "e" [] c = "I" -> "i" [] c = "L" -> "l" [] c = "N" -> "n"
      [] c = "S" -> "s" [] c = "T" -> "t" [] c = "U" -> "u" [] c = "V" -> "v"
      [] c = "X" -> "x"
      [] OTHER -> c

\* str.lower()
str_lower(s) == [i \in 1..Len(s) |-> lower_char(s[i])]

IsSpace(c) == c \in {" ", "\t", "\n"}

\* str.strip(): the text without its leading and trailing whitespace
str_strip(s) ==
    LET keep == {i \in 1..Len(s) : ~IsSpace(s[i])}
    IN  IF keep = {} THEN <<>>
        ELSE LET first == CHOOSE i \in keep : \A j \in keep : i <= j
                 last  == CHOOSE i \in keep : \A j \in keep : j <= i
             IN  SubSeq(s, first, last)

\* Python's `needle in hay` on str
str_contains(needle, hay) ==
    \E i \in 0..(Len(hay) - Len(needle)) :
        SubSeq(hay, i + 1, i + Len(needle)) = needle

-----------------------------------------------------------------------------
(* Cells, rows and tables (pandas values).                                   *)

None == [t |-> "None"]

NaN == [t |-> "nan", v |-> <<>>]          \* an empty cell
Str(s) == [t |-> "str", v |-> s]          \* a text cell
Num(s) == [t |-> "num", v |-> s]          \* a numeric cell, v its digits

\* pd.notna
notna(cell) == cell.t \notin {"nan", "nat"}

\* str(value)
py_str(cell) == IF cell.t = "nan" THEN <<"n", "a", "n">> ELSE cell.v

Timestamp(n) == [t |-> "ts", d |-> n]      \* a datetime cell, d its calendar day
NaT == [t |-> "nat"]                       \* pandas' missing datetime

\* A DataFrame: ordered column names, rows of cells in column order, and the
\* row labels (a fresh frame is labelled 0, 1, ...).
DataFrame(columns, rows) ==
    [t |-> "df", columns |-> columns, rows |-> rows,
     index |-> [i \in 1..Len(rows) |-> [t |-> "int", d |-> i - 1]]]

\* `col in df.columns`
has_column(df, col) == col \in Range(df.columns)

column_index(df, col) ==
    CHOOSE i \in 1..Len(df.columns) :
        /\ df.columns[i] = col
        /\ \A j \in 1..Len(df.columns) : df.columns[j] = col => i <= j

\* row.get(col, default) of a row of df
row_get(df, row, col, default) ==
    IF has_column(df, col) THEN row[column_index(df, col)] ELSE default

\* df.columns = df.columns.str.strip()
strip_columns(df) ==
    [df EXCEPT !.columns = [i \in 1..Len(df.columns) |-> str_strip(df.columns[i])]]

\* df[cols]
project(df, cols) ==
    [df EXCEPT !.columns = cols,
               !.rows = [r \in 1..Len(df.rows) |->
                   [j \in 1..Len(cols) |-> df.rows[r][column_index(df, cols[j])]]]]

\* df.set_index(col, drop=False)
set_index(df, col) ==
    [df EXCEPT !.index = [r \in 1..Len(df.rows) |-> df.rows[r][column_index(df, col)]]]

\* the rows of df at the positions of `keep`, in order (boolean indexing)
take_rows(df, keep) ==
    LET F[i \in 0..Len(df.rows)] ==
            IF i = 0 THEN <<>>
            ELSE IF i \in keep THEN Append(F[i - 1], i) ELSE F[i - 1]
        pos == F[Len(df.rows)]
    IN  [df EXCEPT !.rows = [k \in 1..Len(pos) |-> df.rows[pos[k]]],
                   !.index = [k \in 1..Len(pos) |-> df.index[pos[k]]]]

-----------------------------------------------------------------------------
(* Column names of the programs.                                             *)

cStationName == <<"S","t","a","t","i","o","n"," ","N","a","m","e">>
cAdress == <<"A","d","r","e","s","s">>
cLat == <<"L","a","t">>
cLon == <<"L","o","n">>
cStatus == <<"S","t","a","t","u","s">>
cType == <<"T","y","p","e">>
cStartingDate == <<"S","t","a","r","t","i","n","g"," ","d","a","t","e">>
cLastUpdated == <<"L","a","s","t"," ","u","p","d","a","t","e","d">>
cStationID == <<"S","t","a","t","i","o","n"," ","I","D">>
cDate == <<"D","a","t","e">>

\* 'Station Name ' as program 2 spells it (trailing blank)
cStationName2 == cStationName \o <<" ">>

map_required_cols == <<cStationName, cAdress, cLat, cLon, cStatus>>

detail_required_cols ==
    <<cStationName, cAdress, cLat, cLon, cStatus, cType, cStartingDate, cLastUpdated>>

-----------------------------------------------------------------------------
(* Source documents.  A registry document is missing, unreadable, or a       *)
(* table; the workbook is missing, unreadable, or a sequence of named        *)
(* sheets.                                                                   *)

RegistryFile(status, columns, rows) ==
    [status |-> status, columns |-> columns, rows |-> rows]

Workbook(status, sheets) == [status |-> status, sheets |-> sheets]

\* os.path.exists
path_exists(file) == file.status # "missing"

NoError == [kind |-> "none", cols |-> <<>>]

-----------------------------------------------------------------------------
(* Loaders.  Each returns the value the function returns and the st.error    *)
(* it reports.                                                               *)

missing_cols_of(df, required_cols) ==
    SelectSeq(required_cols, LAMBDA col : ~has_column(df, col))

\* program 1: load_map_data
load_map_data(file) ==
    IF file.status # "ok"
    THEN [value |-> None, error |-> [kind |-> "exception", cols |-> <<>>]]
    ELSE LET df == strip_columns(DataFrame(file.columns, file.rows))
             missing_cols == missing_cols_of(df, map_required_cols)
         IN  IF missing_cols # <<>>
             THEN [value |-> None, error |-> [kind |-> "missing", cols |-> missing_cols]]
             ELSE [value |-> project(df, map_required_cols), error |-> NoError]

\* program 1: load_detail_data
load_detail_data(file) ==
    IF file.status # "ok"
    THEN [value |-> None, error |-> [kind |-> "exception", cols |-> <<>>]]
    ELSE LET df == strip_columns(DataFrame(file.columns, file.rows))
             missing_cols == missing_cols_of(df, detail_required_cols)
         IN  IF missing_cols # <<>>
             THEN [value |-> None, error |-> [kind |-> "missing", cols |-> missing_cols]]
             ELSE [value |-> set_index(df, cStationName), error |-> NoError]

\* program 1: load_data_file
load_data_file1(file) ==
    IF file.status # "ok"
    THEN [value |-> None, error |-> NoError]
    ELSE [value |-> [t |-> "dict", items |-> file.sheets], error |-> NoError]

\* program 2: load_location_data
load_location_data(file) ==
    IF file.status # "ok"
    THEN [value |-> None, error |-> NoError]
    ELSE [value |-> DataFrame(file.columns, file.rows), error |-> NoError]

\* program 2: load_data_file
load_data_file(file) ==
    IF file.status # "ok"
    THEN [value |-> None, error |-> NoError]
    ELSE [value |-> [t |-> "dict", items |-> file.sheets], error |-> NoError]

-----------------------------------------------------------------------------
(* Sheet resolution (program 2, main).                                       *)

\* str(station.get('Station ID', '')).lower()
station_id_of(columns, row) ==
    str_lower(py_str(row_get([columns |-> columns], row, cStationID, Str(<<>>))))

\* a resolver that keeps looking after a match and returns the last one
matching_sheet_last(store, station_id) ==
    LET n == Len(store.items)
        F[i \in 0..n] ==
            IF i = 0 THEN None
            ELSE IF str_contains(station_id, str_lower(store.items[i].name))
                 THEN Str(store.items[i].name)
                 ELSE F[i - 1]
    IN  F[n]

\* next((sheet for sheet in data_df.keys() if station_id in str(sheet).lower()), None)
matching_sheet(store, station_id) ==
    LET n == Len(store.items)
        F[i \in 1..(n + 1)] ==
            IF i > n THEN None
            ELSE IF str_contains(station_id, str_lower(store.items[i].name))
                 THEN Str(store.items[i].name)
                 ELSE F[i + 1]
    IN  F[1]

\* st.session_state.data_df[matching_sheet]
sheet_of(store, name) ==
    LET i == CHOOSE k \in 1..Len(store.items) : store.items[k].name = name
    IN  store.items[i].df

-----------------------------------------------------------------------------
(* Time-window filter (program 2, filter_data_by_days).                      *)

DigitValue(c) ==
    CASE c = "1" -> 1 [] c = "2" -> 2 [] c = "3" -> 3 [] c = "4" -> 4 [] c = "5" -> 5
      [] c = "6" -> 6 [] c = "7" -> 7 [] c = "8" -> 8 [] c = "9" -> 9 [] OTHER -> 0

IsoPrefix == <<"2","0","2","4","-","0","1","-","0">>

\* pd.to_datetime(..., errors='coerce') of one cell.  Of text, the dates
\* "2024-01-01" .. "2024-01-09" are read (calendar days 1..9); any other text
\* of the model is not a date and becomes NaT.
to_datetime(cell) ==
    CASE cell.t = "ts" -> cell
      [] cell.t = "str" ->
            IF /\ Len(cell.v) = 10
               /\ SubSeq(cell.v, 1, 9) = IsoPrefix
               /\ DigitValue(cell.v[10]) > 0
            THEN Timestamp(DigitValue(cell.v[10]))
            ELSE NaT
      [] OTHER -> NaT

SeqMax(S) == CHOOSE m \in S : \A x \in S : x <= m

\* df['Date'] = pd.to_datetime(df['Date'], errors='coerce'): the frame with
\* its Date column assigned
date_assigned(df) ==
    LET c == column_index(df, cDate)
    IN  [df EXCEPT !.rows = [r \in 1..Len(df.rows) |->
                                [df.rows[r] EXCEPT ![c] = to_datetime(@)]]]

\* the frame the caller passed, as filter_data_by_days leaves it: the
\* assignment of the Date column is made in the caller's frame, the later
\* statements rebind the local name only
filter_data_by_days_leaves(df) ==
    IF df = None \/ Len(df.rows) = 0 \/ ~has_column(df, cDate) THEN df
    ELSE date_assigned(df)

filter_data_by_days(df, ndays) ==
    IF df = None \/ Len(df.rows) = 0 \/ ~has_column(df, cDate) THEN df
    ELSE LET c == column_index(df, cDate)
             conv == date_assigned(df)
             kept == take_rows(conv, {r \in 1..Len(conv.rows) : notna(conv.rows[r][c])})
         IN  IF Len(kept.rows) = 0 THEN kept
             ELSE LET latest_date == SeqMax({kept.rows[r][c].d : r \in 1..Len(kept.rows)})
                      cutoff_date == latest_date - ndays
                  IN  take_rows(kept, {r \in 1..Len(kept.rows) :
                                          kept.rows[r][c].d >= cutoff_date})

-----------------------------------------------------------------------------
(* Rendering, program 1.                                                     *)

Raise(e) == [t |-> "raise", v |-> e]

cActive == <<"a","c","t","i","v","e">>
cDead == <<"d","e","a","d">>
cUnknown == <<"U","n","k","n","o","w","n">>
cGroundwater == <<"g","r","o","u","n","d","w","a","t","e","r">>

\* value.lower(): only text has the method
py_lower(cell) ==
    IF cell.t = "str" THEN Str(str_lower(cell.v)) ELSE Raise("AttributeError")

\* program 1: get_station_icon
get_station_icon1(status) ==
    IF notna(status) /\ str_contains(cActive, str_lower(py_str(status)))
    THEN "green" ELSE "red"

\* program 1: the status badge of render_list_column
status_badge(status) ==
    LET low == py_lower(status)
    IN  IF low.t = "raise" THEN low
        ELSE IF low.v = cActive THEN Str(<<"A","c","t","i","v","e">>)
        ELSE IF low.v = cDead THEN Str(<<"D","e","a","d">>)
        ELSE None

\* program 1: one list entry of render_list_column
render_list_entry(df, r) ==
    LET status == row_get(df, df.rows[r], cStatus, Str(cUnknown))
    IN  [station_name |-> row_get(df, df.rows[r], cStationName, Str(cUnknown)),
         icon |-> get_station_icon1(status),
         badge |-> status_badge(status)]

\* df.iloc[a:b]: the rows at the 0-based positions a .. b-1
iloc(df, a, b) == take_rows(df, {r \in 1..Len(df.rows) : a < r /\ r <= b})

split_point_1(total_stations) == total_stations \div 3

split_point_2(total_stations) == 2 * (total_stations \div 3)

df_part_1(stations_df) ==
    iloc(stations_df, 0, split_point_1(Len(stations_df.rows)))

df_part_2(stations_df) ==
    iloc(stations_df, split_point_1(Len(stations_df.rows)),
         split_point_2(Len(stations_df.rows)))

\* a third slice that starts one row late
df_part_3_late(stations_df) ==
    iloc(stations_df, split_point_2(Len(stations_df.rows)) + 1, Len(stations_df.rows))

df_part_3(stations_df) ==
    iloc(stations_df, split_point_2(Len(stations_df.rows)), Len(stations_df.rows))

\* program 1: the frames main hands to col_list_1, col_list_2, col_list_3
station_columns(stations_df) ==
    <<df_part_1(stations_df), df_part_2(stations_df), df_part_3(stations_df)>>

\* program 1: the three render_list_column calls of main, column after
\* column; the run ends at the first entry whose rendering raises
render_list(df) ==
    LET parts == station_columns(df)
        listed == [columns |-> df.columns,
                   rows |-> parts[1].rows \o parts[2].rows \o parts[3].rows]
        n == Len(listed.rows)
        bad == {r \in 1..n : render_list_entry(listed, r).badge.t = "raise"}
        last == IF bad = {} THEN n ELSE CHOOSE r \in bad : \A q \in bad : r <= q
    IN  [entries |-> [r \in 1..last |-> render_list_entry(listed, r)],
         raised |-> bad # {}]

\* Series.mean() of a column: fails on text, is NaN without a number
column_mean(df, col) ==
    LET c == column_index(df, col)
        cells == {df.rows[r][c] : r \in 1..Len(df.rows)}
    IN  IF \E x \in cells : x.t = "str" THEN Raise("TypeError")
        ELSE IF \A x \in cells : ~notna(x) THEN NaN
        ELSE Num(<<>>)

\* the rows with both coordinates present, in order
plotted_rows(df) ==
    Pick([r \in 1..Len(df.rows) |-> r],
         {r \in 1..Len(df.rows) :
             /\ notna(df.rows[r][column_index(df, cLat)])
             /\ notna(df.rows[r][column_index(df, cLon)])})

\* program 1: create_map.  folium.Map refuses a NaN location.
create_map1(stations_df) ==
    IF stations_df = None \/ Len(stations_df.rows) = 0 THEN None
    ELSE LET center_lat == column_mean(stations_df, cLat)
             center_lon == column_mean(stations_df, cLon)
             rows == plotted_rows(stations_df)
             status(r) == row_get(stations_df, stations_df.rows[r], cStatus, Str(cUnknown))
         IN  IF center_lat.t = "raise" THEN center_lat
             ELSE IF center_lon.t = "raise" THEN center_lon
             ELSE IF ~notna(center_lat) \/ ~notna(center_lon) THEN Raise("ValueError")
             ELSE IF \E k \in 1..Len(rows) : py_lower(status(rows[k])).t = "raise"
                  THEN Raise("AttributeError")
             ELSE [t |-> "map",
                   markers |-> [k \in 1..Len(rows) |->
                       [label |-> stations_df.index[rows[k]],
                        color |-> IF py_lower(status(rows[k])).v = cActive
                                  THEN "green" ELSE "red"]]]

\* program 1: len(stations_df[stations_df['Status'].astype(str).str.lower() == 'active'])
active_count(stations_df) ==
    Cardinality({r \in 1..Len(stations_df.rows) :
        str_lower(py_str(row_get(stations_df, stations_df.rows[r], cStatus, NaN))) = cActive})

\* program 1: what main renders after the load section
render1(stations_df, selected) ==
    LET list == render_list(stations_df)
    IN  [list |-> list,
         main |-> IF list.raised THEN [kind |-> "exception"]
                  ELSE IF selected = None
                  THEN [kind |-> "overview",
                        total |-> Len(stations_df.rows),
                        active |-> active_count(stations_df),
                        map |-> create_map1(stations_df)]
                  ELSE [kind |-> "detail", station |-> selected]]

-----------------------------------------------------------------------------
(* Rendering, program 2.                                                     *)

\* program 2: create_map
create_map2(stations_df) ==
    IF stations_df = None \/ Len(stations_df.rows) = 0
    THEN [t |-> "map", markers |-> <<>>]
    ELSE IF ~has_column(stations_df, cLat) \/ ~has_column(stations_df, cLon)
    THEN Raise("KeyError")
    ELSE LET center_lat == column_mean(stations_df, cLat)
             center_lon == column_mean(stations_df, cLon)
             rows == plotted_rows(stations_df)
             type(r) == row_get(stations_df, stations_df.rows[r], cType, Str(<<>>))
         IN  IF center_lat.t = "raise" THEN center_lat
             ELSE IF center_lon.t = "raise" THEN center_lon
             ELSE IF ~notna(center_lat) \/ ~notna(center_lon) THEN Raise("ValueError")
             ELSE [t |-> "map",
                   markers |-> [k \in 1..Len(rows) |->
                       [label |-> stations_df.index[rows[k]],
                        color |-> IF str_contains(cGroundwater, str_lower(py_str(type(rows[k]))))
                                  THEN "blue" ELSE "red"]]]

\* bool(value) of a dict or of None
truthy_dict(d) == d # None /\ Len(d.items) > 0

\* the stored frame itself, where a copy was meant
frame_shared(df) == [frame |-> df, stored |-> TRUE]

\* df.copy(): a frame of its own with the same content
frame_copy(df) == [frame |-> df, stored |-> FALSE]

\* program 2: the chart section of main
chart_section(store, station, ndays) ==
    IF truthy_dict(store)
    THEN LET station_id == station_id_of(station.columns, station.row)
             sheet == matching_sheet(store, station_id)
         IN  IF sheet # None /\ sheet.v # <<>>
             THEN LET data == frame_copy(sheet_of(store, sheet.v)).frame
                      filtered_data == filter_data_by_days(data, ndays)
                  IN  IF Len(filtered_data.rows) > 0
                      THEN [kind |-> "chart", sheet |-> sheet.v, data |-> filtered_data]
                      ELSE [kind |-> "info", text |-> "No data in last days"]
             ELSE [kind |-> "warning", text |-> "No data sheet found for this station"]
    ELSE [kind |-> "nothing"]

\* program 2: the store the chart section of main leaves in the session.
\* The filter assigns the Date column of the frame it is given; the store
\* holds that frame only if the section passed the stored frame itself.
store_after_chart(store, station, ndays) ==
    IF truthy_dict(store)
    THEN LET station_id == station_id_of(station.columns, station.row)
             sheet == matching_sheet(store, station_id)
         IN  IF sheet # None /\ sheet.v # <<>>
             THEN LET i == CHOOSE k \in 1..Len(store.items) :
                               store.items[k].name = sheet.v
                      data == frame_copy(store.items[i].df)
                  IN  IF data.stored
                      THEN [store EXCEPT !.items[i].df =
                                filter_data_by_days_leaves(data.frame)]
                      ELSE store
             ELSE store
    ELSE store

\* program 2: the store a run of main leaves in the session
store_after_render2(store, selected, ndays) ==
    IF selected = None THEN store ELSE store_after_chart(store, selected, ndays)

\* program 2: data_loaded
data_loaded_of(loc, data, stations_df) ==
    /\ path_exists(loc) /\ path_exists(data)
    /\ stations_df # None /\ Len(stations_df.rows) > 0

\* program 2: what main renders after the load section
render2(loaded, stations_df, store, selected, ndays) ==
    [list |-> IF loaded
              THEN [entries |-> [r \in 1..Len(stations_df.rows) |->
                        [station_name |-> row_get(stations_df, stations_df.rows[r],
                                                  cStationName2, Str(cUnknown))]],
                    text |-> "stations"]
              ELSE [entries |-> <<>>, text |-> "No entities found"],
     main |-> IF selected = None
              THEN [kind |-> "overview",
                    map |-> create_map2(IF loaded THEN stations_df ELSE None)]
              ELSE [kind |-> "detail", station |-> selected,
                    chart |-> chart_section(store, selected, ndays)]]

-----------------------------------------------------------------------------
(* Function-level specifications: the inputs are drawn in the initial state  *)
(* and one action applies the function.  The session is idle in them.        *)

NoCall == [fn |-> "none"]

SessionIdle ==
    /\ program = 0
    /\ location_file = None /\ detail_file = None /\ data_file = None
    /\ stations_data = None /\ detail_data = None /\ data_df = None
    /\ selected_station = None /\ selected_station_name = None
    /\ days = 0 /\ phase = "idle" /\ messages = {} /\ view = None
    /\ lastEvent = NoCall

SessionUnchanged ==
    UNCHANGED <<program, location_file, detail_file, data_file, stations_data,
                detail_data, data_df, selected_station, selected_station_name,
                days, phase, messages, view, lastEvent>>

\* texts over an alphabet, of length lo..hi
Texts(alphabet, lo, hi) == UNION {[1..k -> alphabet] : k \in lo..hi}

(* --- registry loaders ---------------------------------------------------- *)

cLowerLat == <<"l","a","t">>

\* raw column names a registry document may carry: the eight names of
\* program 1, blank-padded spellings and a differently cased one
ColumnUniverse ==
    <<cStationName, cAdress, cLat, cLon, cStatus, cType, cStartingDate, cLastUpdated,
      <<" ">> \o cLat, cStatus \o <<" ">>, cStationName2, cLowerLat>>

ColumnChoices == {Pick(ColumnUniverse, m) : m \in SUBSET (1..Len(ColumnUniverse))}

InitLoad ==
    /\ SessionIdle
    /\ call \in {[fn |-> "load", file |-> RegistryFile("ok", cols, <<>>)] :
                    cols \in ColumnChoices}
                \cup {[fn |-> "load", file |-> RegistryFile("unreadable", <<>>, <<>>)]}
    /\ ret = NoCall

CallLoadMapData ==
    /\ call.fn = "load" /\ ret = NoCall
    /\ ret' = [fn |-> "load_map_data", out |-> load_map_data(call.file)]
    /\ UNCHANGED call /\ SessionUnchanged

CallLoadDetailData ==
    /\ call.fn = "load" /\ ret = NoCall
    /\ ret' = [fn |-> "load_detail_data", out |-> load_detail_data(call.file)]
    /\ UNCHANGED call /\ SessionUnchanged

CallLoadLocationData ==
    /\ call.fn = "load" /\ ret = NoCall
    /\ ret' = [fn |-> "load_location_data", out |-> load_location_data(call.file)]
    /\ UNCHANGED call /\ SessionUnchanged

NextLoad == CallLoadMapData \/ CallLoadDetailData \/ CallLoadLocationData

SpecLoad == InitLoad /\ [][NextLoad]_vars

(* --- sheet resolution ---------------------------------------------------- *)

SheetNames == Texts({"A", "b"}, 1, MaxNameLen)

StationIds == Texts({"a", "B"}, 0, MaxIdLen)

EmptySheet == DataFrame(<<cDate>>, <<>>)

\* workbooks of 1..MaxSheets sheets; no two names equal up to case
ResolveStores ==
    {[t |-> "dict",
      items |-> [i \in 1..Len(ns) |-> [name |-> ns[i], df |-> EmptySheet]]] :
        ns \in {x \in UNION {[1..k -> SheetNames] : k \in 1..MaxSheets} :
                  \A i, j \in 1..Len(x) : i # j => str_lower(x[i]) # str_lower(x[j])}}

InitResolve ==
    /\ SessionIdle
    /\ call \in {[fn |-> "resolve", store |-> st, columns |-> <<cStationID>>, row |-> <<c>>] :
                    st \in ResolveStores, c \in {Str(i) : i \in StationIds} \cup {NaN}}
                \cup {[fn |-> "resolve", store |-> st, columns |-> <<>>, row |-> <<>>] :
                    st \in ResolveStores}
    /\ ret = NoCall

CallResolve ==
    /\ call.fn = "resolve" /\ ret = NoCall
    /\ ret' = [fn |-> "matching_sheet",
               out |-> matching_sheet(call.store, station_id_of(call.columns, call.row))]
    /\ UNCHANGED call /\ SessionUnchanged

NextResolve == CallResolve

SpecResolve == InitResolve /\ [][NextResolve]_vars

(* --- time-window filter -------------------------------------------------- *)

cLevel == <<"L","e","v","e","l">>
cLowerDate == <<"d","a","t","e">>

DateCells ==
    {Timestamp(d) : d \in 0..MaxDay}
        \cup {NaN, Str(<<"a","b","c">>), Str(IsoPrefix \o <<"2">>)}

FilterFrames ==
    {DataFrame(cols, [i \in 1..Len(ds) |-> <<ds[i], Num(<<"1">>)>>]) :
        cols \in {<<cDate, cLevel>>, <<cLowerDate, cLevel>>},
        ds \in UNION {[1..k -> DateCells] : k \in 0..MaxRows}}

InitFilter ==
    /\ SessionIdle
    /\ call \in {[fn |-> "filter", df |-> f, days |-> d] :
                    f \in FilterFrames, d \in 1..MaxDays}
    /\ ret = NoCall

CallFilter ==
    /\ call.fn = "filter" /\ ret = NoCall
    /\ ret' = [fn |-> "filter_data_by_days",
               out |-> filter_data_by_days(call.df, call.days)]
    /\ UNCHANGED call /\ SessionUnchanged

NextFilter == CallFilter

SpecFilter == InitFilter /\ [][NextFilter]_vars

-----------------------------------------------------------------------------
(* The documents a session may find.                                         *)

Station(name, lat, lon, status, id) ==
    [name |-> name, lat |-> lat, lon |-> lon, status |-> status, id |-> id]

\* the cell of a station under a column, by the column's trimmed name
cell_of(st, col) ==
    CASE col = cStationName -> Str(st.name)
      [] col = cLat -> st.lat
      [] col = cLon -> st.lon
      [] col = cStatus -> st.status
      [] col = cStationID -> st.id
      [] OTHER -> Str(<<"x">>)

StationA ==
    Station(<<"A">>, Num(<<"1","0">>), Num(<<"2","0">>),
            Str(<<"A","c","t","i","v","e">>), Str(<<"S","1">>))

StationB ==
    Station(<<"B">>, NaN, NaN, Str(<<"D","e","a","d">>), Str(<<"s","2">>))

StationKinds ==
    {StationA, StationB,
     Station(<<"B">>, Str(<<"a","b","c">>), Num(<<"2","0">>),
             Str(<<"I","n","a","c","t","i","v","e">>), NaN),
     Station(<<"A">>, Num(<<"1","0">>), Num(<<"2","0">>), NaN, Str(<<"s","2">>))}

ListsOf(kinds, n) == UNION {[1..k -> kinds] : k \in 0..n}

StationLists == ListsOf(StationKinds, MaxStations)

registry_rows(cols, sts) ==
    [i \in 1..Len(sts) |-> [j \in 1..Len(cols) |-> cell_of(sts[i], str_strip(cols[j]))]]

ColsExact ==
    <<cStationName, cAdress, cLat, cLon, cStatus, cType, cStartingDate, cLastUpdated,
      cStationID>>

ColsPadded ==
    <<cStationName2, cAdress, <<" ">> \o cLat, cLon, cStatus, cType, cStartingDate,
      cLastUpdated, cStationID>>

ColsNoLat == <<cStationName, cAdress, cLon, cType, cStartingDate, cLastUpdated>>

BrokenRegistryFiles ==
    {RegistryFile("missing", <<>>, <<>>), RegistryFile("unreadable", <<>>, <<>>),
     RegistryFile("ok", ColsNoLat, <<>>)}

\* the padded layout is tried on the lists of at most one station
LocationFiles ==
    {RegistryFile("ok", ColsExact, registry_rows(ColsExact, sts)) : sts \in StationLists}
    \cup {RegistryFile("ok", ColsPadded, registry_rows(ColsPadded, sts)) :
              sts \in ListsOf(StationKinds, 1)}
    \cup BrokenRegistryFiles

\* the detail document holds the records of A and B
DetailFiles ==
    {RegistryFile("ok", ColsExact, registry_rows(ColsExact, sts)) :
        sts \in ListsOf({StationA, StationB}, MaxStations)}
    \cup BrokenRegistryFiles

SheetRows(ds) == [i \in 1..Len(ds) |-> <<ds[i], Num(<<"1">>)>>]

SheetKinds ==
    {[name |-> <<"S","1","x">>,
      df |-> DataFrame(<<cDate, cLevel>>,
                SheetRows(<<Timestamp(0), Timestamp(100), Str(<<"a","b","c">>),
                            Timestamp(400)>>))],
     [name |-> <<"s","2">>, df |-> DataFrame(<<cDate, cLevel>>, <<>>)],
     [name |-> <<"S","2","b">>,
      df |-> DataFrame(<<cDate, cLevel>>, SheetRows(<<NaN, Str(<<"a","b","c">>)>>))]}

SheetLists ==
    {x \in UNION {[1..k -> SheetKinds] : k \in 1..MaxSheets} :
        \A i, j \in 1..Len(x) : i # j => x[i].name # x[j].name}

BrokenWorkbooks == {Workbook("missing", <<>>), Workbook("unreadable", <<>>)}

\* program 1 reads the workbook and never looks inside it
DataFiles1 ==
    {Workbook("ok", <<[name |-> <<"S","1">>, df |-> EmptySheet]>>)} \cup BrokenWorkbooks

DataFiles2 == {Workbook("ok", sh) : sh \in SheetLists} \cup BrokenWorkbooks

TimeRangeOptions == {30, 90, 365}

-----------------------------------------------------------------------------
(* The split of the station list (program 1), on its own.                    *)

MaxList == 6

\* the listing tables load_map_data returns for 0 .. MaxList stations
SplitFrames ==
    {load_map_data(RegistryFile("ok", ColsExact, registry_rows(ColsExact, sts))).value :
        sts \in ListsOf({StationA, StationB}, MaxList)}

InitSplit ==
    /\ SessionIdle
    /\ call \in {[fn |-> "split", df |-> f] : f \in SplitFrames}
    /\ ret = NoCall

CallSplit ==
    /\ call.fn = "split" /\ ret = NoCall
    /\ ret' = [fn |-> "station_columns", out |-> station_columns(call.df)]
    /\ UNCHANGED call /\ SessionUnchanged

NextSplit == CallSplit

SpecSplit == InitSplit /\ [][NextSplit]_vars

-----------------------------------------------------------------------------
(* The session.                                                              *)

Event(op, arg, outcome) == [op |-> op, arg |-> arg, outcome |-> outcome]

Init ==
    /\ program \in {1, 2}
    /\ location_file \in LocationFiles
    /\ detail_file \in (IF program = 1 THEN DetailFiles ELSE {None})
    /\ data_file \in (IF program = 1 THEN DataFiles1 ELSE DataFiles2)
    /\ stations_data = None /\ detail_data = None /\ data_df = None
    /\ selected_station = None /\ selected_station_name = None
    /\ days = 90
    /\ phase = "start"
    /\ messages = {}
    /\ view = None
    /\ lastEvent = Event("start", None, "ok")
    /\ call = NoCall /\ ret = NoCall

Documents == <<program, location_file, detail_file, data_file>>

Stopped == [list |-> None, main |-> [kind |-> "stopped"]]

\* program 1, main: the load section of a run that finds data missing from
\* the session, and the rendering that follows when it succeeds
Main1Load ==
    /\ program = 1 /\ phase \in {"start", "stopped"}
    /\ stations_data = None \/ detail_data = None \/ data_df = None
    /\ IF path_exists(location_file) /\ path_exists(detail_file) /\ path_exists(data_file)
       THEN LET m == load_map_data(location_file)
                d == load_detail_data(detail_file)
                t == load_data_file1(data_file)
                failed == m.value = None \/ d.value = None \/ t.value = None
            IN  /\ stations_data' = m.value
                /\ detail_data' = d.value
                /\ data_df' = t.value
                /\ messages' = ({m.error, d.error, t.error} \ {NoError})
                        \cup (IF failed
                              THEN {[kind |-> "failed to read", cols |-> <<>>]} ELSE {})
                /\ phase' = IF failed THEN "stopped" ELSE "running"
                /\ view' = IF failed THEN Stopped ELSE render1(m.value, selected_station)
       ELSE /\ UNCHANGED <<stations_data, detail_data, data_df>>
            /\ messages' = {[kind |-> "files not found", cols |-> <<>>]}
            /\ phase' = "stopped"
            /\ view' = Stopped
    /\ lastEvent' = Event("load", None, phase')
    /\ UNCHANGED <<Documents, selected_station, selected_station_name, days, call, ret>>

\* a lookup by position (iloc[0]) where the label was meant
loc_first(df, label) ==
    IF Len(df.rows) = 0 THEN Raise("KeyError")
    ELSE [t |-> "Series", columns |-> df.columns, row |-> df.rows[1], label |-> label]

\* detail_data.loc[label]: the row with that label, the rows when several
\* carry it, KeyError when none does
loc(df, label) ==
    LET hits == {r \in 1..Len(df.rows) : df.index[r] = label}
    IN  IF hits = {} THEN Raise("KeyError")
        ELSE IF Cardinality(hits) = 1
        THEN LET r == CHOOSE q \in hits : TRUE
             IN  [t |-> "Series", columns |-> df.columns, row |-> df.rows[r],
                  label |-> label]
        ELSE take_rows(df, hits)

\* program 1: a station button is on the page when the entries before it
\* rendered
button_rendered1(i) ==
    /\ view # None /\ view.list # None
    /\ i \in 1..Len(view.list.entries)

\* program 1, render_list_column: the click on the button of list entry i
Select1(i) ==
    /\ program = 1 /\ phase = "running"
    /\ button_rendered1(i)
    /\ LET station_name == row_get(stations_data, stations_data.rows[i],
                                   cStationName, Str(cUnknown))
           found == loc(detail_data, station_name)
       IN  /\ selected_station_name' = station_name
           /\ IF found.t = "raise"
              THEN /\ UNCHANGED selected_station
                   /\ view' = [list |-> [entries |-> SubSeq(view.list.entries, 1, i),
                                         raised |-> TRUE],
                               main |-> [kind |-> "exception"]]
                   /\ lastEvent' = Event("select", station_name, "KeyError")
              ELSE /\ selected_station' = found
                   /\ view' = render1(stations_data, found)
                   /\ lastEvent' = Event("select", station_name, "ok")
    /\ UNCHANGED <<Documents, stations_data, detail_data, data_df, days, phase,
                   messages, call, ret>>

\* program 1, main: the click on "Back to Map View"
Back1 ==
    /\ program = 1 /\ phase = "running"
    /\ view.main.kind = "detail"
    /\ selected_station' = None
    /\ view' = render1(stations_data, None)
    /\ lastEvent' = Event("back", None, "ok")
    /\ UNCHANGED <<Documents, stations_data, detail_data, data_df,
                   selected_station_name, days, phase, messages, call, ret>>

\* program 1: a run that no widget caused
Rerun1 ==
    /\ program = 1 /\ phase = "running"
    /\ view' = render1(stations_data, selected_station)
    /\ lastEvent' = Event("rerun", None, "ok")
    /\ UNCHANGED <<Documents, stations_data, detail_data, data_df, selected_station,
                   selected_station_name, days, phase, messages, call, ret>>

\* program 2, main: the load section of a run that finds no stations_data
\* in the session, and the rendering that follows
Main2Load ==
    /\ program = 2
    /\ stations_data = None
    /\ IF path_exists(location_file) /\ path_exists(data_file)
       THEN /\ stations_data' = load_location_data(location_file).value
            /\ data_df' = store_after_render2(load_data_file(data_file).value,
                                              selected_station, days)
       ELSE /\ UNCHANGED stations_data
            /\ data_df' = store_after_render2(data_df, selected_station, days)
    /\ messages' = {}
    /\ phase' = "running"
    /\ view' = render2(data_loaded_of(location_file, data_file, stations_data'),
                       stations_data',
                       IF path_exists(location_file) /\ path_exists(data_file)
                       THEN load_data_file(data_file).value ELSE data_df,
                       selected_station, days)
    /\ lastEvent' = Event("load", None, "running")
    /\ UNCHANGED <<Documents, detail_data, selected_station, selected_station_name,
                   days, call, ret>>

data_loaded == data_loaded_of(location_file, data_file, stations_data)

\* program 2, main: the click on the button of list entry i
Select2(i) ==
    /\ program = 2 /\ phase = "running"
    /\ data_loaded
    /\ i \in 1..Len(stations_data.rows)
    /\ LET station == [t |-> "Series", columns |-> stations_data.columns,
                       row |-> stations_data.rows[i],
                       label |-> stations_data.index[i]]
       IN  /\ selected_station' = station
           /\ view' = render2(data_loaded, stations_data, data_df, station, days)
           /\ data_df' = store_after_render2(data_df, station, days)
           /\ lastEvent' = Event("select", station.label, "ok")
    /\ UNCHANGED <<Documents, stations_data, detail_data,
                   selected_station_name, days, phase, messages, call, ret>>

\* program 2, main: the click on "Back"; the selectbox leaves the page
Back2 ==
    /\ program = 2 /\ phase = "running"
    /\ selected_station # None
    /\ selected_station' = None
    /\ days' = 90
    /\ view' = render2(data_loaded, stations_data, data_df, None, 90)
    /\ data_df' = store_after_render2(data_df, None, 90)
    /\ lastEvent' = Event("back", None, "ok")
    /\ UNCHANGED <<Documents, stations_data, detail_data,
                   selected_station_name, phase, messages, call, ret>>

\* program 2, main: another option of the "Time Range" selectbox
ChangeDays(d) ==
    /\ program = 2 /\ phase = "running"
    /\ selected_station # None
    /\ d # days
    /\ days' = d
    /\ view' = render2(data_loaded, stations_data, data_df, selected_station, d)
    /\ data_df' = store_after_render2(data_df, selected_station, d)
    /\ lastEvent' = Event("days", None, "ok")
    /\ UNCHANGED <<Documents, stations_data, detail_data, selected_station,
                   selected_station_name, phase, messages, call, ret>>

\* program 2: a run that no widget caused
Rerun2 ==
    /\ program = 2 /\ phase = "running"
    /\ stations_data # None
    /\ view' = render2(data_loaded, stations_data, data_df, selected_station, days)
    /\ data_df' = store_after_render2(data_df, selected_station, days)
    /\ lastEvent' = Event("rerun", None, "ok")
    /\ UNCHANGED <<Documents, stations_data, detail_data, selected_station,
                   selected_station_name, days, phase, messages, call, ret>>

Next ==
    \/ Main1Load
    \/ \E i \in 1..MaxStations : Select1(i)
    \/ Back1
    \/ Rerun1
    \/ Main2Load
    \/ \E i \in 1..MaxStations : Select2(i)
    \/ Back2
    \/ \E d \in TimeRangeOptions : ChangeDays(d)
    \/ Rerun2

Spec == Init /\ [][Next]_vars

-----------------------------------------------------------------------------
(* Claims.                                                                   *)

\* The fields every configuration of the registry requires: a station name,
\* latitude, longitude and status.
CommonRequiredFields == {cStationName, cLat, cLon, cStatus}

RequiredOf(fn) ==
    CASE fn = "load_map_data" -> Range(map_required_cols)
      [] fn = "load_detail_data" -> Range(detail_required_cols)
      [] OTHER -> CommonRequiredFields

\* C3: every registry loader succeeds on a readable document if and only if
\* each required field is among the column names after trimming, and on
\* failure reports exactly the required fields that are not.
LoadIffRequiredPresent ==
    (ret.fn \in {"load_map_data", "load_detail_data", "load_location_data"}
        /\ call.file.status = "ok") =>
        LET trimmed == {str_strip(c) : c \in Range(call.file.columns)}
            missing == RequiredOf(ret.fn) \ trimmed
        IN  /\ (ret.out.value # None) <=> (missing = {})
            /\ missing # {} =>
                  /\ ret.out.error.kind = "missing"
                  /\ Range(ret.out.error.cols) = missing

\* C4: resolution returns the first sheet name, in the store's order, whose
\* lowercased name contains the lowercased station identifier, and None when
\* no sheet name contains it.
ResolveFirstMatch ==
    (ret.fn = "matching_sheet" /\ call.columns = <<cStationID>>
        /\ call.row[1].t = "str") =>
        LET items == call.store.items
            ident == str_lower(call.row[1].v)
            hits == {i \in 1..Len(items) : str_contains(ident, str_lower(items[i].name))}
        IN  IF hits = {} THEN ret.out = None
            ELSE \E i \in hits :
                    /\ \A j \in hits : i <= j
                    /\ ret.out = Str(items[i].name)

\* C4 witness: two sheets contain the identifier only up to case, and the
\* first of them is returned.
ResolveFirstMatchWitness ==
    /\ ret.fn = "matching_sheet" /\ call.columns = <<cStationID>>
    /\ call.row[1].t = "str" /\ Len(call.row[1].v) >= 1
    /\ Len(call.store.items) = 2
    /\ \A i \in 1..2 :
          /\ str_contains(str_lower(call.row[1].v), str_lower(call.store.items[i].name))
          /\ ~str_contains(call.row[1].v, call.store.items[i].name)
    /\ ret.out = Str(call.store.items[1].name)

\* C5: a row is in the output of the filter if and only if its timestamp
\* parses and is not before the latest parsed timestamp minus the days; a
\* dataset with no row or no parseable timestamp gives an empty dataset.
FilterRowIff ==
    ret.fn = "filter_data_by_days" =>
        LET df == call.df
            n == Len(df.rows)
            ts(r) == IF has_column(df, cDate)
                     THEN to_datetime(df.rows[r][column_index(df, cDate)])
                     ELSE NaT
            parsed == {r \in 1..n : ts(r).t = "ts"}
            inOutput(r) == \E k \in 1..Len(ret.out.rows) : ret.out.index[k] = df.index[r]
        IN  /\ ret.out # None
            /\ \A r \in 1..n :
                  inOutput(r) <=>
                      /\ r \in parsed
                      /\ ts(r).d >= SeqMax({ts(q).d : q \in parsed}) - call.days
            /\ parsed = {} => Len(ret.out.rows) = 0


(* --- the selection --------------------------------------------------------- *)

\* the records a lookup of `id` finds in the registry the selection is made
\* from: the detail table by station name (program 1), the station table by
\* row label (program 2)
FoundRecords(id) ==
    IF program = 1
    THEN {r \in 1..Len(detail_data.rows) : detail_data.index[r] = id}
    ELSE {r \in 1..Len(stations_data.rows) : stations_data.index[r] = id}

\* a step that handles a station-selection event
SelectStep == lastEvent'.op = "select" /\ vars' # vars

\* C1: a select of an identifier the lookup registry does not hold ends as a
\* failed lookup and leaves the focused station and the recorded station
\* name as they were.
SelectUnknownLeavesSelection ==
    [][(SelectStep /\ FoundRecords(lastEvent'.arg) = {}) =>
          /\ lastEvent'.outcome = "KeyError"
          /\ selected_station' = selected_station
          /\ selected_station_name' = selected_station_name]_vars

\* the identifier a focused station stands for
FocusedId(sel) ==
    CASE sel.t = "Series" /\ program = 1 ->
            {row_get(sel, sel.row, cStationName, None)}
      [] sel.t = "Series" /\ program = 2 -> {sel.label}
      [] OTHER -> {row_get(sel, sel.rows[r], cStationName, None) : r \in 1..Len(sel.rows)}

\* C2: the selection is Overview after a successful load, Detail(id) after a
\* select of a known id, Overview after back, and no other event changes it.
SelectionStateMachine ==
    [][vars' # vars =>
        CASE lastEvent'.op = "load" ->
                phase' = "running" => selected_station' = None
          [] lastEvent'.op = "select" ->
                FoundRecords(lastEvent'.arg) # {} =>
                    /\ selected_station' # None
                    /\ FocusedId(selected_station') = {lastEvent'.arg}
          [] lastEvent'.op = "back" ->
                selected_station # None /\ selected_station' = None
          [] OTHER -> selected_station' = selected_station]_vars

\* C2 witness: program 2 shows the second station after its time window was
\* changed to 365 days, or program 1 is back at Overview after station B was
\* focused.
SelectionStateMachineWitness ==
    \/ /\ program = 2 /\ lastEvent.op = "days" /\ days = 365
       /\ selected_station # None /\ selected_station.label = [t |-> "int", d |-> 1]
    \/ /\ program = 1 /\ lastEvent.op = "back" /\ selected_station = None
       /\ selected_station_name = Str(<<"B">>)

\* C9: every station offered in the listing is found by the lookup as its
\* one record: a select never ends in a failed lookup, in several records or
\* in the record of another station.
LookupReturnsTheRecord ==
    lastEvent.op = "select" =>
        /\ lastEvent.outcome = "ok"
        /\ selected_station.t = "Series"
        /\ FocusedId(selected_station) = {lastEvent.arg}

(* --- load failures --------------------------------------------------------- *)

MissingRequired(file, required) ==
    file.status = "ok" /\ ~(required \subseteq {str_strip(c) : c \in Range(file.columns)})

\* a registry document lacks a required column, or a document is unreadable
StructuralLoadFailure ==
    \/ location_file.status = "unreadable"
    \/ data_file.status = "unreadable"
    \/ program = 1 /\ detail_file.status = "unreadable"
    \/ program = 1 /\ MissingRequired(location_file, Range(map_required_cols))
    \/ program = 1 /\ MissingRequired(detail_file, Range(detail_required_cols))
    \/ program = 2 /\ MissingRequired(location_file, CommonRequiredFields)

\* C6: after a structural load failure the run reports an error and the
\* session stops; it never goes on with an empty or absent substitute.
LoadFailureIsReported ==
    (phase # "start" /\ StructuralLoadFailure) =>
        /\ messages # {}
        /\ phase = "stopped"

(* --- the station query ----------------------------------------------------- *)

\* C7: a query in Detail ends in a chart of a non-empty dataset, in "no data
\* in this window" or in "never had data"; the second only when the station's
\* unfiltered dataset has a row, the third whenever the station has no
\* matching sheet or its sheet has no row.
QueryOutcomeClassified ==
    (program = 2 /\ view # None /\ view.main.kind = "detail") =>
        LET chart == view.main.chart
            sheet == IF data_df = None THEN None
                     ELSE matching_sheet(data_df,
                              station_id_of(selected_station.columns, selected_station.row))
            unfiltered == IF sheet = None THEN 0
                          ELSE Len(sheet_of(data_df, sheet.v).rows)
        IN  /\ chart.kind \in {"chart", "info", "warning"}
            /\ chart.kind = "chart" => Len(chart.data.rows) > 0
            /\ chart.kind = "info" => unfiltered > 0
            /\ unfiltered = 0 => chart.kind = "warning"

(* --- coordinates and status ------------------------------------------------ *)

IsNumber(cell) == cell.t = "num"

\* C8: a record without a numeric latitude or longitude never makes the map
\* fail and gets no marker, and every source row is listed: the markers are
\* exactly the rows with both coordinates.
CoordinatesNeverFailMap ==
    (view # None /\ view.main.kind = "overview" /\ stations_data # None
        /\ has_column(stations_data, cLat) /\ has_column(stations_data, cLon)
        /\ (program = 2 => data_loaded)) =>
        LET map == view.main.map
            n == Len(stations_data.rows)
            located == {r \in 1..n :
                           /\ IsNumber(row_get(stations_data, stations_data.rows[r], cLat, NaN))
                           /\ IsNumber(row_get(stations_data, stations_data.rows[r], cLon, NaN))}
        IN  /\ Len(view.list.entries) = n
            /\ map = None \/ map.t = "map"
            /\ IF map = None THEN located = {}
               ELSE {map.markers[k].label : k \in 1..Len(map.markers)}
                        = {stations_data.index[r] : r \in located}

\* C10: a record is shown as active by the list icon, the badge and the
\* marker colour exactly when it is counted as active, which is when its
\* status equals "active" ignoring case; a missing or unrecognised status
\* fails no consumer.
StatusReadAlike ==
    (program = 1 /\ phase = "running") =>
        LET n == Len(stations_data.rows)
            status(r) == row_get(stations_data, stations_data.rows[r], cStatus, NaN)
            counted == {r \in 1..n : status(r).t = "str" /\ str_lower(status(r).v) = cActive}
        IN  /\ active_count(stations_data) = Cardinality(counted)
            /\ \A r \in 1..n :
                  LET entry == render_list_entry(stations_data, r)
                  IN  /\ entry.badge.t # "raise"
                      /\ (entry.icon = "green") <=> (r \in counted)
                      /\ (entry.badge = Str(<<"A","c","t","i","v","e">>)) <=> (r \in counted)
            /\ LET map == create_map1(stations_data)
               IN  /\ map = None \/ map.t = "map" \/ map.v # "AttributeError"
                   /\ (map # None /\ map.t = "map") =>
                          \A k \in 1..Len(map.markers) :
                              (map.markers[k].color = "green") <=>
                                  (\E r \in counted : stations_data.index[r] = map.markers[k].label)


\* C11: queries never change loaded data: in every state of a session, after
\* any selections, changes of the time range and returns, the time-series
\* store (sheet order, rows, every column value, the Date column included)
\* and the registry tables are equal to what the load produced from the
\* documents.
QueriesLeaveLoadedData ==
    /\ (program = 2 /\ stations_data # None) =>
            /\ stations_data = load_location_data(location_file).value
            /\ data_df = load_data_file(data_file).value
    /\ (program = 1 /\ phase = "running") =>
            /\ stations_data = load_map_data(location_file).value
            /\ detail_data = load_detail_data(detail_file).value
            /\ data_df = load_data_file1(data_file).value

\* a chart was drawn after a change of the time range, from a sheet whose
\* Date column the filter had to convert
QueriesLeaveLoadedDataWitness ==
    /\ program = 2 /\ lastEvent.op = "days"
    /\ view.main.kind = "detail" /\ view.main.chart.kind = "chart"
    /\ LET stored == sheet_of(data_df, view.main.chart.sheet)
       IN  filter_data_by_days_leaves(stored) # stored


\* C12: the three display columns keep source order and lose nothing: for a
\* listing of any size n the slices have n \div 3, n \div 3 and the remaining
\* stations, their rows and labels put end to end in column order are the
\* listing's rows and labels, and every station of the listing is at exactly
\* one place of exactly one column.
SplitKeepsEveryStationInOrder ==
    ret.fn = "station_columns" =>
        LET p == ret.out
            df == call.df
            n == Len(df.rows)
        IN  /\ Len(p[1].rows) = n \div 3
            /\ Len(p[1].rows) + Len(p[2].rows) = 2 * (n \div 3)
            /\ p[1].rows \o p[2].rows \o p[3].rows = df.rows
            /\ p[1].index \o p[2].index \o p[3].index = df.index
            /\ \A r \in 1..n :
                  Cardinality({kj \in (1..3) \X (1..n) :
                                  /\ kj[2] <= Len(p[kj[1]].index)
                                  /\ p[kj[1]].index[kj[2]] = df.index[r]}) = 1

\* a listing of five stations was split and every column got a station
SplitKeepsEveryStationInOrderWitness ==
    /\ ret.fn = "station_columns"
    /\ Len(call.df.rows) = 5
    /\ \A k \in 1..3 : Len(ret.out[k].rows) > 0


\* the identifier the session records for its selection: the selected
\* station name (program 1), the label of the selected row (program 2)
RecordedId ==
    IF program = 1 THEN selected_station_name ELSE selected_station.label

\* C13: whenever a station is in focus, the registry the selection is made
\* from is loaded, a lookup of the recorded identifier of the selection
\* finds a record there, and the station data in focus are that record.
SelectionRefersToRegistry ==
    selected_station # None =>
        /\ IF program = 1 THEN detail_data # None ELSE stations_data # None
        /\ RecordedId # None
        /\ FoundRecords(RecordedId) # {}
        /\ IF program = 1
           THEN selected_station = loc(detail_data, RecordedId)
           ELSE \A r \in FoundRecords(RecordedId) :
                    /\ selected_station.row = stations_data.rows[r]
                    /\ selected_station.columns = stations_data.columns


\* the station record of the call has no station identifier: the record has
\* no such field, or its cell is empty
NoStationId ==
    \/ call.columns = <<>>
    \/ /\ call.columns = <<cStationID>>
       /\ call.row[1] = NaN \/ call.row[1] = Str(<<>>)

\* C14: a station record without a station identifier resolves to no sheet,
\* whatever the store holds.
NoIdResolvesToNothing ==
    (ret.fn = "matching_sheet" /\ NoStationId) => ret.out = None

====
